---- MODULE Spec2Model ----
(***************************************************************************)
(* A model of nobuild (nobuild.h and its example driver): the append-only  *)
(* flag and object lists, the compiler descriptor, the build rule, rule    *)
(* assembly (MAKE_RULE), execution (BUILD / __build: argument vector,      *)
(* fork, execvp, waitpid) and release (cleanup).                           *)
(*                                                                         *)
(* Memory is modelled explicitly.  List nodes live at addresses            *)
(* 1..MaxNodes, handed out in order by malloc and never reused, so that    *)
(* every free() can be counted per address.  The compiler descriptor, the  *)
(* rule and the caller's target object have one fixed address each.  The   *)
(* null pointer is 0.  Characters are numbers; 0 is the terminator.        *)
(***************************************************************************)
EXTENDS Integers, Sequences, FiniteSets

\* ------------------------------------------------------------- constants
DEFAULT_CAPACITY == 120
FLAG_CAPACITY    == DEFAULT_CAPACITY
OBJECT_CAPACITY  == DEFAULT_CAPACITY
CC_CAPACITY      == DEFAULT_CAPACITY
OUT_CAPACITY     == DEFAULT_CAPACITY
EXIT_FAILURE     == 1

\* ---------------------------------------------------------------- bounds
MaxNodes == 3      \* node allocations (flag_t and object_t together)

NULL     == 0
NodeAddr == 1..MaxNodes
CcAddr     == MaxNodes + 1     \* the compiler_t that INIT_CC allocates
RuleAddr   == MaxNodes + 2     \* the build_rule_t that INIT_RULE allocates
TargetAddr == MaxNodes + 3     \* the caller's object_t target (automatic storage)

\* ------------------------------------------------------------- strings
NUL   == 0
Indet == -1        \* a byte whose value the program never set

Str(c, n) == [i \in 1..n |-> c]

\* The names the caller passes to ADD_FLAG / ADD_OBJECT: a one-character
\* name, the longest name that fits, and the shortest that does not.
ShortName   == Str(97, 1)
LongestName == Str(98, DEFAULT_CAPACITY - 1)
TooLongName == Str(99, DEFAULT_CAPACITY)
AppendNames == {ShortName, LongestName, TooLongName}

\* strlen(): the number of characters before the first terminator.  A name
\* array that holds no terminator is read past its end; whatever follows,
\* the result is at least the array's size, which is all the callers use.
strlen(s) == Len(s)

\* ------------------------------------------------------------ variables
VARIABLES
    nodes,          \* NodeAddr -> [kind, name, next]: the flag_t / object_t nodes
    nalloc,         \* number of node addresses malloc has handed out
    frees,          \* address -> number of free() calls on it
    flag_list,      \* the caller's flag_t *flag_list
    dependencies,   \* the caller's object_t *dependencies
    hist,           \* NodeAddr -> names appended, in order, to the list whose head is that node
    cc,             \* the caller's compiler_t *cc
    ccObj,          \* *cc: [cmd, flags]
    rule,           \* the caller's build_rule_t *rule
    ruleObj,        \* *rule: [target, dependencies, cc, output]
    refused,        \* whether MAKE_RULE has refused this rule, never yet assembled, for want of a compiler or of dependencies
    detached,       \* the nodes of flag lists that a successful MAKE_RULE took off the compiler
    held,           \* the name the target had when MAKE_RULE last stored rule->target
    target,         \* the caller's object_t target: [name, next], and whether its lifetime lasts
    pc,             \* where the caller is: between calls, inside __build, inside cleanup
    argv,           \* __build's argument vector: its slots, or <<>> when there is none
    argvLive,       \* whether the argument vector is allocated and not yet freed
    build,          \* the BUILD call in progress: its rule, children created, vectors allocated and freed, stores out of bounds
    child,          \* the child process: [st, args, status]
    cur,            \* cleanup's deps / flags cursor
    uaf,            \* whether cleanup has read storage it had already freed
    debug,          \* whether the program was compiled with DEBUG defined
    printed,        \* the last line BUILD has written to the standard output
    op              \* the operation that produced the current state, with its outcome

vars == <<nodes, nalloc, frees, flag_list, dependencies, hist, cc, ccObj, rule,
          ruleObj, refused, detached, held,
          target, pc, argv, argvLive, build, child, cur,
          uaf, debug, printed, op>>

listVars  == <<nodes, nalloc, flag_list, dependencies, hist>>
ccVars    == <<cc, ccObj>>
ruleVars  == <<rule, ruleObj, refused, detached, held>>
buildVars == <<argv, argvLive, build, child>>
cleanVars == <<cur, uaf>>

NoNode == [kind |-> "none", name |-> <<>>, next |-> NULL]

\* An operation that hands its caller no value (a void function, a macro)
\* has finished or taken a step; ok is whether it did what it was called for.
Did(name, ok, arg) == [name |-> name, ok |-> ok, ret |-> "void", arg |-> arg]

\* ------------------------------------------------------------ the lists
\* AllocFn that keeps the storage it obtained when the name is too long.
AllocFnNoFree(kind, copy, capacity, mallocOk) ==
    IF ~mallocOk
    THEN [ptr |-> NULL, took |-> FALSE, freed |-> FALSE, node |-> NoNode]
    ELSE IF strlen(copy) > capacity - 1
    THEN [ptr |-> NULL, took |-> TRUE, freed |-> FALSE, node |-> NoNode]
    ELSE [ptr |-> nalloc + 1, took |-> TRUE, freed |-> FALSE,
          node |-> [kind |-> kind, name |-> copy, next |-> NULL]]

\* __flag_t_alloc / __object_t_alloc.  mallocOk is whether malloc returns
\* storage.  The result is the pointer returned (NULL on failure), the node
\* as written, and whether the storage obtained was freed again.
AllocFn(kind, copy, capacity, mallocOk) ==
    IF ~mallocOk
    THEN [ptr |-> NULL, took |-> FALSE, freed |-> FALSE, node |-> NoNode]
    ELSE IF strlen(copy) > capacity - 1
    THEN [ptr |-> NULL, took |-> TRUE, freed |-> TRUE, node |-> NoNode]
    ELSE [ptr |-> nalloc + 1, took |-> TRUE, freed |-> FALSE,
          node |-> [kind |-> kind, name |-> copy, next |-> NULL]]

\* LastNode for a loop that stops at the first node.
LastNodeIsHead(ptr, prev) == ptr

\* The loop of LIST_PUSH_BACK: the last node of the list at head, or NULL.
RECURSIVE LastNode(_, _)
LastNode(ptr, prev) ==
    IF ptr = NULL THEN prev ELSE LastNode(nodes[ptr].next, ptr)

\* The addresses of the list at head, in traversal order.
RECURSIVE Traverse(_, _)
Traverse(mem, ptr) ==
    IF ptr = NULL THEN <<>> ELSE <<ptr>> \o Traverse(mem, mem[ptr].next)

\* The set of the addresses of the list at head ptr.
Reach(ptr) == {Traverse(nodes, ptr)[i] : i \in 1..Len(Traverse(nodes, ptr))}

NamesOf(mem, ptr) ==
    LET t == Traverse(mem, ptr) IN [i \in 1..Len(t) |-> mem[t[i]].name]

\* The value of the head pointer that a head location names.
HeadOf(loc) ==
    CASE loc = "flag_list"    -> flag_list
      [] loc = "dependencies" -> dependencies
      [] loc = "cc->flags"    -> ccObj.flags

\* Storing p through the head location (HEAD = ...).
SetHead(loc, p) ==
    /\ flag_list'    = IF loc = "flag_list" THEN p ELSE flag_list
    /\ dependencies' = IF loc = "dependencies" THEN p ELSE dependencies
    /\ ccObj'        = IF loc = "cc->flags" THEN [ccObj EXCEPT !.flags = p] ELSE ccObj

\* LIST_PUSH_BACK(TYPE, HEAD, OBJECT): walk to the last node, allocate a copy
\* of OBJECT, and store the pointer returned (NULL on failure too) in HEAD
\* when the list is empty and in the last node's __next otherwise.
ListPushBack(fn, loc, kind, capacity, item, mallocOk) ==
    LET head == HeadOf(loc)
        prev == LastNode(head, NULL)
        r    == AllocFn(kind, item, capacity, mallocOk)
        new  == nalloc + 1
        mem1 == IF r.ptr # NULL THEN [nodes EXCEPT ![new] = r.node] ELSE nodes
    IN  /\ nalloc < MaxNodes
        /\ nalloc' = IF r.took THEN new ELSE nalloc
        /\ frees'  = IF r.freed THEN [frees EXCEPT ![new] = @ + 1] ELSE frees
        /\ IF prev = NULL
           THEN /\ nodes' = mem1
                /\ SetHead(loc, r.ptr)
           ELSE /\ nodes' = [mem1 EXCEPT ![prev].next = r.ptr]
                /\ UNCHANGED <<flag_list, dependencies, ccObj>>
        /\ hist' = IF r.ptr = NULL THEN hist
                   ELSE IF head = NULL THEN [hist EXCEPT ![new] = <<item>>]
                   ELSE [hist EXCEPT ![head] = Append(@, item)]
        /\ op' = Did(fn, r.ptr # NULL, loc)

ADD_FLAG ==
    /\ pc = "idle"
    /\ \E item \in AppendNames, mallocOk \in BOOLEAN :
           ListPushBack("ADD_FLAG", "flag_list", "flag", FLAG_CAPACITY, item, mallocOk)
    /\ UNCHANGED <<debug, printed, cc, ruleVars, target, pc, buildVars, cleanVars>>

ADD_OBJECT ==
    /\ pc = "idle"
    /\ \E item \in AppendNames, mallocOk \in BOOLEAN :
           ListPushBack("ADD_OBJECT", "dependencies", "object", OBJECT_CAPACITY,
                        item, mallocOk)
    /\ UNCHANGED <<debug, printed, cc, ruleVars, target, pc, buildVars, cleanVars>>

\* ------------------------------------------------- descriptor and rule
\* memset(field, '\0', sizeof(*field)) on fresh malloc storage: sizeof(*field)
\* is sizeof(char), so the first byte is cleared and the rest is never set.
FreshField(capacity) == [i \in 1..capacity |-> IF i = 1 THEN NUL ELSE Indet]

\* strncpy(dst, src, n): the first n characters of src, padded with
\* terminators up to n when src is shorter.
strncpy(src, n) == [i \in 1..n |-> IF i <= Len(src) THEN src[i] ELSE NUL]

NoCc   == [cmd |-> <<>>, flags |-> NULL]
NoRule == [target |-> NULL, dependencies |-> NULL, cc |-> NULL, output |-> <<>>]

\* The names the caller gives its target: "main.c", later "x.c".
MainC == <<109, 97, 105, 110, 46, 99>>
TargetNames == {MainC, <<120, 46, 99>>}

\* The strings the caller passes as compiler command and as output path.
CmdNames == {<<103, 99, 99>>}
OutNames == {<<111, 117, 116>>}

INIT_CC ==
    /\ pc = "idle"
    /\ cc = NULL
    /\ \E mallocOk \in BOOLEAN :
         IF mallocOk
         THEN /\ cc' = CcAddr
              /\ ccObj' = [cmd |-> FreshField(CC_CAPACITY), flags |-> NULL]
              /\ pc' = "idle"
              /\ op' = Did("INIT_CC", TRUE, NULL)
         ELSE \* (NULL)->flags = NULL
              /\ pc' = "crashed"
              /\ op' = Did("INIT_CC", FALSE, NULL)
              /\ UNCHANGED ccVars
    /\ UNCHANGED <<debug, printed, listVars, frees, ruleVars, target, buildVars, cleanVars>>

\* SET_CC(cc, str): strncpy(cc->cmd, str, CC_CAPACITY).
SetCc(s) ==
    /\ ccObj' = [ccObj EXCEPT !.cmd = strncpy(s, CC_CAPACITY)]
    /\ op' = Did("SET_CC", TRUE, s)

SET_CC ==
    /\ pc = "idle"
    /\ cc # NULL
    /\ \E s \in CmdNames : SetCc(s)
    /\ UNCHANGED <<debug, printed, listVars, frees, cc, ruleVars, target, pc, buildVars, cleanVars>>

INIT_RULE ==
    /\ pc = "idle"
    /\ rule = NULL
    /\ \E mallocOk \in BOOLEAN :
         IF mallocOk
         THEN /\ rule' = RuleAddr
              /\ ruleObj' = [target |-> NULL, dependencies |-> NULL, cc |-> NULL,
                             output |-> FreshField(OUT_CAPACITY)]
              /\ refused' = FALSE
              /\ held' = <<>>
              /\ UNCHANGED detached
              /\ pc' = "idle"
              /\ op' = Did("INIT_RULE", TRUE, NULL)
         ELSE \* (NULL)->target = NULL
              /\ pc' = "crashed"
              /\ op' = Did("INIT_RULE", FALSE, NULL)
              /\ UNCHANGED ruleVars
    /\ UNCHANGED <<debug, printed, listVars, frees, ccVars, target, buildVars, cleanVars>>

\* MakeRule that keeps a flag list the compiler already has.
MakeRuleKeepsFlags(r, c, f, t, d, out) ==
    IF r = NULL \/ c = NULL \/ d = NULL
    THEN /\ UNCHANGED <<ccObj, ruleObj>>
         /\ refused' = (refused \/ (r # NULL /\ ruleObj.cc = NULL))
         /\ UNCHANGED <<held, detached>>
         /\ op' = Did("MAKE_RULE", FALSE,
                      [rule |-> r, compiler |-> c, dependencies |-> d,
                       target |-> t])
    ELSE /\ ccObj' = [ccObj EXCEPT !.flags = IF @ = NULL THEN f ELSE @]
         /\ ruleObj' = [cc |-> c, output |-> strncpy(out, CC_CAPACITY),
                        target |-> t, dependencies |-> d]
         /\ refused' = FALSE
         /\ held' = IF t = NULL THEN <<>> ELSE target.name
         /\ detached' = (detached \cup Reach(ccObj.flags)) \ Reach(f)
         /\ op' = Did("MAKE_RULE", TRUE,
                      [rule |-> r, compiler |-> c, flags |-> f, target |-> t,
                       dependencies |-> d, output |-> out])

\* MakeRule with a guard that does not look at the dependency list.
MakeRuleNoDepsCheck(r, c, f, t, d, out) ==
    IF r = NULL \/ c = NULL
    THEN /\ UNCHANGED <<ccObj, ruleObj>>
         /\ refused' = (refused \/ (r # NULL /\ ruleObj.cc = NULL))
         /\ UNCHANGED <<held, detached>>
         /\ op' = Did("MAKE_RULE", FALSE,
                      [rule |-> r, compiler |-> c, dependencies |-> d,
                       target |-> t])
    ELSE /\ ccObj' = [ccObj EXCEPT !.flags = f]
         /\ ruleObj' = [cc |-> c, output |-> strncpy(out, CC_CAPACITY),
                        target |-> t, dependencies |-> d]
         /\ refused' = FALSE
         /\ held' = IF t = NULL THEN <<>> ELSE target.name
         /\ detached' = (detached \cup Reach(ccObj.flags)) \ Reach(f)
         /\ op' = Did("MAKE_RULE", d # NULL,
                      [rule |-> r, compiler |-> c, flags |-> f, target |-> t,
                       dependencies |-> d, output |-> out])

\* MAKE_RULE(__rule, __compiler, __flags, __target, __dependencies, output).
\* applied is whether the call got past its guard.
MakeRule(r, c, f, t, d, out) ==
    IF r = NULL \/ c = NULL \/ d = NULL
    THEN /\ UNCHANGED <<ccObj, ruleObj>>
         /\ refused' = (refused \/ (r # NULL /\ ruleObj.cc = NULL))
         /\ UNCHANGED <<held, detached>>
         /\ op' = Did("MAKE_RULE", FALSE,
                      [rule |-> r, compiler |-> c, dependencies |-> d,
                       target |-> t])
    ELSE /\ ccObj' = [ccObj EXCEPT !.flags = f]
         /\ ruleObj' = [cc |-> c, output |-> strncpy(out, CC_CAPACITY),
                        target |-> t, dependencies |-> d]
         /\ refused' = FALSE
         /\ held' = IF t = NULL THEN <<>> ELSE target.name
         /\ detached' = (detached \cup Reach(ccObj.flags)) \ Reach(f)
         /\ op' = Did("MAKE_RULE", TRUE,
                      [rule |-> r, compiler |-> c, flags |-> f, target |-> t,
                       dependencies |-> d, output |-> out])

\* The calls the caller makes: with its own rule, compiler, flag list, target
\* and dependency list, or with one of the five arguments NULL instead.
MakeRuleAbsent == {"none", "rule", "compiler", "flags", "target", "dependencies"}

MAKE_RULE ==
    /\ pc = "idle"
    /\ \E absent \in MakeRuleAbsent, out \in OutNames :
           MakeRule(IF absent = "rule" THEN NULL ELSE rule,
                    IF absent = "compiler" THEN NULL ELSE cc,
                    IF absent = "flags" THEN NULL ELSE flag_list,
                    IF absent = "target" THEN NULL ELSE TargetAddr,
                    IF absent = "dependencies" THEN NULL ELSE dependencies,
                    out)
    /\ UNCHANGED <<debug, printed, listVars, frees, cc, rule, target, pc, buildVars, cleanVars>>

\* ------------------------------------------------------------ execution
\* Executable with the check of the target left out.
ExecutableNoTarget(r) ==
    /\ r # NULL
    /\ ruleObj.cc # NULL
    /\ ruleObj.dependencies # NULL

\* The condition of BUILD's and __build's first line: the rule is executable.
Executable(r) ==
    /\ r # NULL
    /\ ruleObj.cc # NULL
    /\ ruleObj.target # NULL
    /\ ruleObj.dependencies # NULL

\* An argument-vector slot holds a pointer: to a character array inside an
\* object (base, field), to the string literal "-o", or NULL.
Ptr(base, field) == [base |-> base, field |-> field]
NullSlot == Ptr(NULL, "NULL")
DashO    == Ptr(NULL, "-o")

\* The string a reader finds in a character array: the characters before
\* the first terminator.  An array with no terminator is read past its end:
\* its characters followed by whatever lies behind it (Indet).
CStr(bytes) ==
    IF \E i \in 1..Len(bytes) : bytes[i] = NUL
    THEN LET n == CHOOSE i \in 1..Len(bytes) :
                      bytes[i] = NUL /\ \A j \in 1..(i - 1) : bytes[j] # NUL
         IN  SubSeq(bytes, 1, n - 1)
    ELSE Append(bytes, Indet)

\* Deref for a rule that keeps its own copy of the target, made by MAKE_RULE.
DerefTargetCopy(p) ==
    CASE p.field = "-o"     -> <<45, 111>>
      [] p.field = "cmd"    -> CStr(ccObj.cmd)
      [] p.field = "output" -> CStr(ruleObj.output)
      [] p.field = "name"   -> IF p.base = TargetAddr THEN held
                               ELSE nodes[p.base].name

\* The string a slot's pointer leads to.  rule->target points at the
\* caller's object: what is read is what that object holds now.
Deref(p) ==
    CASE p.field = "-o"     -> <<45, 111>>
      [] p.field = "cmd"    -> CStr(ccObj.cmd)
      [] p.field = "output" -> CStr(ruleObj.output)
      [] p.field = "name"   -> IF p.base = TargetAddr THEN target.name
                               ELSE nodes[p.base].name

\* ArgCount with the slot of the terminating NULL left out of the count.
ArgCountNoTerminator ==
    Len(Traverse(nodes, ccObj.flags))
        + Len(Traverse(nodes, ruleObj.dependencies))
        + (1 + 1 + 1 + 1)

\* The first loops of __build: one argument per flag and per dependency,
\* plus compiler, "-o", output, target and the terminating NULL.
ArgCount ==
    Len(Traverse(nodes, ccObj.flags))
        + Len(Traverse(nodes, ruleObj.dependencies))
        + (1 + 1 + 1 + 1 + 1)

\* argv[i++] = p on a vector of Len(st.a) slots; a store at an index that is
\* not a slot of the vector is recorded in oob.
Store(st, p) ==
    [a   |-> IF st.i < Len(st.a) THEN [st.a EXCEPT ![st.i + 1] = p] ELSE st.a,
     i   |-> st.i + 1,
     oob |-> st.oob \/ st.i >= Len(st.a)]

\* for (n = list; n; n = n->__next) argv[i++] = n->name;
RECURSIVE StoreNames(_, _)
StoreNames(st, ptr) ==
    IF ptr = NULL THEN st
    ELSE StoreNames(Store(st, Ptr(ptr, "name")), nodes[ptr].next)

\* Lines 378-397: fill a calloc'ed vector of argc slots.
Serialize(argc) ==
    LET s0 == [a |-> [k \in 1..argc |-> NullSlot], i |-> 0, oob |-> FALSE]
        s1 == Store(s0, Ptr(ruleObj.cc, "cmd"))
        s2 == StoreNames(s1, ccObj.flags)
        s3 == Store(s2, DashO)
        s4 == Store(s3, Ptr(RuleAddr, "output"))
        s5 == Store(s4, Ptr(ruleObj.target, "name"))
        s6 == StoreNames(s5, ruleObj.dependencies)
        s7 == Store(s6, NullSlot)     \* argv[i] = NULL
    IN  [a |-> s7.a, i |-> s6.i, oob |-> s7.oob]

\* What execvp reads from the vector: the strings of the slots before the
\* first NULL slot.  A vector with no NULL slot is read past its end.
RECURSIVE ExecArgs(_, _)
ExecArgs(a, k) ==
    IF k > Len(a) THEN <<<<Indet>>>>
    ELSE IF a[k] = NullSlot THEN <<>>
    ELSE <<Deref(a[k])>> \o ExecArgs(a, k + 1)

NoBuild == [rule |-> NULL, children |-> 0, allocs |-> 0, frees |-> 0, oob |-> FALSE]
NoChild == [st |-> "none", args |-> <<>>, exec |-> "none",
            status |-> [exited |-> TRUE, code |-> 0]]

WIFEXITED(status)   == status.exited
WEXITSTATUS(status) == status.code

\* What a BUILD call that has returned ret did: the children it created, the
\* vectors it allocated and freed, and the state of its child at the return.
Returned(ret, why, acct) ==
    [name |-> "BUILD", ok |-> ret = 0, ret |-> ret,
     arg |-> [why |-> why, rule |-> acct.rule, children |-> acct.children,
              allocs |-> acct.allocs,
              frees |-> acct.frees, oob |-> acct.oob, st |-> child.st,
              exec |-> child.exec, status |-> child.status]]

\* Lines 320-347, compiled in when DEBUG is defined: the command line is put
\* together in char command[1024] and printed.
CommandSize == 1024
Take(s, n) == SubSeq(s, 1, IF n < Len(s) THEN n ELSE Len(s))

\* snprintf(command, size, "%s ", str): at most size - 1 characters.
snprintf(size, str) == Take(str \o <<32>>, size - 1)

\* strncat(dest, src, n): dest followed by at most n characters of src.
strncat(dest, src, n) == dest \o Take(src, n)

\* strncat(command, src, sizeof(command) - strlen(command) - 1)
Cat(command, src) == strncat(command, src, CommandSize - strlen(command) - 1)

\* for (n = list; n; n = n->__next) { Cat(n->name); Cat(" "); }
RECURSIVE CatNames(_, _)
CatNames(command, ptr) ==
    IF ptr = NULL THEN command
    ELSE CatNames(Cat(Cat(command, nodes[ptr].name), <<32>>), nodes[ptr].next)

Render ==
    LET c0 == snprintf(CommandSize, CStr(ccObj.cmd))
        c1 == CatNames(c0, ccObj.flags)
        c2 == Cat(Cat(Cat(c1, <<45, 111, 32>>), CStr(ruleObj.output)), <<32>>)
        c3 == Cat(c2, Deref(Ptr(ruleObj.target, "name")))
    IN  CatNames(c3, ruleObj.dependencies)

\* __build(rule) up to the fork: the check of the rule, the counting, the
\* allocation and the filling of the argument vector.
BuildInner(r) ==
    IF ~Executable(r)
    THEN /\ op' = Returned(-1, "malformed", [NoBuild EXCEPT !.rule = r])
         /\ UNCHANGED <<pc, argv, argvLive, build, child>>
    ELSE \E callocOk \in BOOLEAN :
           IF ~callocOk
           THEN /\ op' = Returned(-1, "calloc", [NoBuild EXCEPT !.rule = r])
                /\ UNCHANGED <<pc, argv, argvLive, build, child>>
           ELSE LET s == Serialize(ArgCount)
                IN  /\ argv' = s.a
                    /\ argvLive' = TRUE
                    /\ build' = [NoBuild EXCEPT !.rule = r, !.allocs = 1,
                                                !.oob = s.oob]
                    /\ pc' = "fork"
                    /\ op' = Did("serialize", TRUE, s.i)
                    /\ UNCHANGED child

\* BUILD in a program compiled with DEBUG that prints the command line
\* instead of running it.
BuildEnterPrintOnly(r) ==
    IF ~Executable(r)
    THEN /\ op' = Returned(-1, "malformed", [NoBuild EXCEPT !.rule = r])
         /\ UNCHANGED <<pc, argv, argvLive, build, child, printed>>
    ELSE IF debug
    THEN /\ printed' = Render
         /\ op' = Returned(0, "printed", [NoBuild EXCEPT !.rule = r])
         /\ UNCHANGED <<pc, argv, argvLive, build, child>>
    ELSE /\ UNCHANGED printed
         /\ BuildInner(r)

\* BUILD(rule) up to the fork: the check of the rule, the rendering of the
\* command line when compiled with DEBUG, and __build(rule).
BuildEnter(r) ==
    IF ~Executable(r)
    THEN /\ op' = Returned(-1, "malformed", [NoBuild EXCEPT !.rule = r])
         /\ UNCHANGED <<pc, argv, argvLive, build, child, printed>>
    ELSE /\ printed' = IF debug THEN Render ELSE printed
         /\ BuildInner(r)

BUILD ==
    /\ pc = "idle"
    /\ \E r \in {NULL, rule} : BuildEnter(r)
    /\ UNCHANGED <<debug, listVars, frees, ccVars, ruleVars, target, cleanVars>>

\* free(argv) and the return of __build with value ret.
BuildReturn(ret, why, acct) ==
    /\ argv' = <<>>
    /\ argvLive' = FALSE
    /\ build' = NoBuild
    /\ pc' = "idle"
    /\ op' = Returned(ret, why, acct)

\* Fork that returns on failure without free(argv).
ForkLeaksOnFailure ==
    /\ pc = "fork"
    /\ \E forkOk \in BOOLEAN :
         IF forkOk
         THEN /\ child' = [st |-> "forked", args |-> ExecArgs(argv, 1),
                           exec |-> "pending", status |-> NoChild.status]
              /\ build' = [build EXCEPT !.children = @ + 1]
              /\ pc' = "wait"
              /\ op' = Did("fork", TRUE, NULL)
              /\ UNCHANGED <<argv, argvLive>>
         ELSE /\ BuildReturn(-1, "fork", build)
              /\ UNCHANGED child
    /\ UNCHANGED <<debug, printed, listVars, frees, ccVars, ruleVars, target, cleanVars>>

\* pid = fork(): no child and an immediate return on failure; otherwise a
\* child that holds a copy of the parent's memory.
Fork ==
    /\ pc = "fork"
    /\ \E forkOk \in BOOLEAN :
         IF forkOk
         THEN /\ child' = [st |-> "forked", args |-> ExecArgs(argv, 1),
                           exec |-> "pending", status |-> NoChild.status]
              /\ build' = [build EXCEPT !.children = @ + 1]
              /\ pc' = "wait"
              /\ op' = Did("fork", TRUE, NULL)
              /\ UNCHANGED <<argv, argvLive>>
         ELSE /\ BuildReturn(-1, "fork", [build EXCEPT !.frees = @ + 1])
              /\ UNCHANGED child
    /\ UNCHANGED <<debug, printed, listVars, frees, ccVars, ruleVars, target, cleanVars>>

\* The child: execvp(argv[0], argv) replaces the program image, or fails and
\* the child calls perror and exit(EXIT_FAILURE), the last statement it
\* executes, still inside the branch pid == 0.
ChildExec ==
    /\ child.st = "forked"
    /\ \E execOk \in BOOLEAN :
         child' = IF execOk THEN [child EXCEPT !.st = "running", !.exec = "done"]
                  ELSE [child EXCEPT !.st = "terminated", !.exec = "failed",
                            !.status = [exited |-> TRUE, code |-> EXIT_FAILURE]]
    /\ UNCHANGED <<debug, printed, listVars, frees, ccVars, ruleVars, target, pc, argv, argvLive,
                   build, cleanVars, op>>

ExitCodes == {0, 1, 127}

\* The compiler runs and exits.
ChildExit ==
    /\ child.st = "running"
    /\ \E code \in ExitCodes :
         child' = [child EXCEPT !.st = "terminated",
                       !.status = [exited |-> TRUE, code |-> code]]
    /\ UNCHANGED <<debug, printed, listVars, frees, ccVars, ruleVars, target, pc, argv, argvLive,
                   build, cleanVars, op>>

\* The child is terminated by a signal (SIGKILL).
ChildKilled ==
    /\ child.st \in {"forked", "running"}
    /\ child' = [child EXCEPT !.st = "terminated",
                     !.status = [exited |-> FALSE, code |-> 9]]
    /\ UNCHANGED <<debug, printed, listVars, frees, ccVars, ruleVars, target, pc, argv, argvLive,
                   build, cleanVars, op>>

\* int status = 0; waitpid(pid, &status, 0), whose result is not looked at.
\* waitpid blocks until the child has terminated.  It then stores the
\* child's status, unless the process runs with SIGCHLD ignored (a signal
\* disposition it inherits from whoever started it): the system then reaps
\* the child itself, waitpid fails with ECHILD and status keeps its 0.
WaitStatus(sigchldIgnored) ==
    IF sigchldIgnored THEN [exited |-> TRUE, code |-> 0] ELSE child.status

\* WaitReady for a wait that does not block (WNOHANG).
WaitNoHang == child.st \in {"forked", "running", "terminated"}

\* waitpid(pid, &status, 0) returns only once the child has terminated.
WaitReady == child.st = "terminated"

\* Lines 415-424.
Wait ==
    /\ pc = "wait"
    /\ WaitReady
    /\ \E sigchldIgnored \in BOOLEAN :
         LET status == WaitStatus(sigchldIgnored)
         IN  /\ child' = NoChild
             /\ IF WIFEXITED(status) /\ WEXITSTATUS(status) = 0
                THEN BuildReturn(0, IF sigchldIgnored THEN "ECHILD" ELSE "waited",
                                 [build EXCEPT !.frees = @ + 1])
                ELSE BuildReturn(-1, "waited", [build EXCEPT !.frees = @ + 1])
    /\ UNCHANGED <<debug, printed, listVars, frees, ccVars, ruleVars, target, cleanVars>>

\* -------------------------------------------------------------- cleanup
\* A read of the object at address a: of storage already freed, it is a
\* use after free.
ReadsFreed(a) == frees[a] > 0

\* cleanup(rule): the null check and deps = rule->dependencies.
CleanupEnter(r) ==
    IF r = NULL
    THEN /\ op' = Did("cleanup", TRUE, NULL)
         /\ UNCHANGED <<pc, cur, uaf>>
    ELSE /\ cur' = ruleObj.dependencies
         /\ uaf' = (uaf \/ ReadsFreed(RuleAddr))
         /\ pc' = "cleanup_deps"
         /\ op' = Did("cleanup_enter", TRUE, r)

cleanup ==
    /\ pc = "idle"
    /\ \E r \in {NULL, rule} : CleanupEnter(r)
    /\ UNCHANGED <<debug, printed, listVars, frees, ccVars, ruleVars, target, buildVars>>

\* FreeNode for a loop that frees the node first: free(p); p = p->__next.
FreeNodeThenRead(p) ==
    /\ uaf' = TRUE
    /\ cur' = nodes[p].next
    /\ frees' = [frees EXCEPT ![p] = @ + 1]

\* One turn of a release loop: next = p->__next; free(p); p = next.
FreeNode(p) ==
    /\ uaf' = (uaf \/ ReadsFreed(p))
    /\ cur' = nodes[p].next
    /\ frees' = [frees EXCEPT ![p] = @ + 1]

\* while (deps) {...}, then flags = rule->cc->flags.
CleanupDeps ==
    /\ pc = "cleanup_deps"
    /\ IF cur # NULL
       THEN /\ FreeNode(cur)
            /\ op' = Did("free_dep", TRUE, cur)
            /\ UNCHANGED pc
       ELSE IF ruleObj.cc = NULL
       THEN \* (NULL)->flags
            /\ pc' = "crashed"
            /\ op' = Did("cleanup", FALSE, NULL)
            /\ UNCHANGED <<cur, uaf, frees>>
       ELSE /\ cur' = ccObj.flags
            /\ uaf' = (uaf \/ ReadsFreed(RuleAddr) \/ ReadsFreed(ruleObj.cc))
            /\ pc' = "cleanup_flags"
            /\ op' = Did("deps_freed", TRUE, NULL)
            /\ UNCHANGED frees
    /\ UNCHANGED <<debug, printed, listVars, ccVars, ruleVars, target, buildVars>>

\* while (flags) {...}
CleanupFlags ==
    /\ pc = "cleanup_flags"
    /\ IF cur # NULL
       THEN /\ FreeNode(cur)
            /\ op' = Did("free_flag", TRUE, cur)
            /\ UNCHANGED pc
       ELSE /\ pc' = "cleanup_cc"
            /\ op' = Did("flags_freed", TRUE, NULL)
            /\ UNCHANGED <<cur, uaf, frees>>
    /\ UNCHANGED <<debug, printed, listVars, ccVars, ruleVars, target, buildVars>>

\* if (rule->cc) free(rule->cc);
CleanupCc ==
    /\ pc = "cleanup_cc"
    /\ uaf' = (uaf \/ ReadsFreed(RuleAddr))
    /\ frees' = IF ruleObj.cc # NULL THEN [frees EXCEPT ![ruleObj.cc] = @ + 1]
                ELSE frees
    /\ pc' = "cleanup_rule"
    /\ op' = Did("free_cc", TRUE, NULL)
    /\ UNCHANGED <<debug, printed, listVars, ccVars, ruleVars, target, buildVars, cur>>

\* free(rule); and the return.
CleanupRule ==
    /\ pc = "cleanup_rule"
    /\ frees' = [frees EXCEPT ![RuleAddr] = @ + 1]
    /\ pc' = "done"
    /\ op' = Did("cleanup", TRUE, RuleAddr)
    /\ UNCHANGED <<debug, printed, listVars, ccVars, ruleVars, target, buildVars, cur, uaf>>

\* -------------------------------------------------------- specification
\* The state after construction of a program compiled with DEBUG defined
\* (dbg) or not.
Start(dbg) ==
    /\ nodes = [a \in NodeAddr |-> NoNode]
    /\ nalloc = 0
    /\ frees = [a \in 1..TargetAddr |-> 0]
    /\ flag_list = NULL
    /\ dependencies = NULL
    /\ hist = [a \in NodeAddr |-> <<>>]
    /\ cc = NULL
    /\ ccObj = NoCc
    /\ rule = NULL
    /\ ruleObj = NoRule
    /\ refused = FALSE
    /\ held = <<>>
    /\ detached = {}
    /\ target = [name |-> MainC, next |-> NULL, live |-> TRUE]
    /\ pc = "idle"
    /\ argv = <<>>
    /\ argvLive = FALSE
    /\ build = NoBuild
    /\ child = NoChild
    /\ cur = NULL
    /\ uaf = FALSE
    /\ debug = dbg
    /\ printed = <<>>
    /\ op = Did("main", TRUE, NULL)

Init == Start(FALSE)

Next ==
    \/ INIT_CC
    \/ SET_CC
    \/ ADD_FLAG
    \/ ADD_OBJECT
    \/ INIT_RULE
    \/ MAKE_RULE
    \/ BUILD
    \/ Fork
    \/ ChildExec
    \/ ChildExit
    \/ ChildKilled
    \/ Wait
    \/ cleanup
    \/ CleanupDeps
    \/ CleanupFlags
    \/ CleanupCc
    \/ CleanupRule

Spec == Init /\ [][Next]_vars

\* ------------------------------------------------------------ the caller
\* The same program with a caller that appends short names only, that also
\* appends flags through the compiler's own list head (ADD_FLAG(&cc->flags,
\* ...)), and that, after MAKE_RULE has stored the address of its target,
\* changes the target's name or lets the target's lifetime end; the storage
\* of an object whose lifetime has ended holds what it held or anything else.
RenameTarget ==
    /\ pc = "idle"
    /\ ruleObj.target = TargetAddr
    /\ target.live
    /\ \E n \in TargetNames \ {target.name} : target' = [target EXCEPT !.name = n]
    /\ op' = Did("rename", TRUE, NULL)
    /\ UNCHANGED <<debug, printed, listVars, frees, ccVars, ruleVars, pc, buildVars, cleanVars>>

EndTargetLifetime ==
    /\ pc = "idle"
    /\ ruleObj.target = TargetAddr
    /\ target.live
    /\ \E n \in {target.name, <<Indet>>} :
           target' = [target EXCEPT !.name = n, !.live = FALSE]
    /\ op' = Did("end of lifetime", TRUE, NULL)
    /\ UNCHANGED <<debug, printed, listVars, frees, ccVars, ruleVars, pc, buildVars, cleanVars>>

\* Appends of a short name that find storage.
AddShortFlag ==
    /\ pc = "idle"
    /\ ListPushBack("ADD_FLAG", "flag_list", "flag", FLAG_CAPACITY, ShortName, TRUE)
    /\ UNCHANGED <<debug, printed, cc, ruleVars, target, pc, buildVars, cleanVars>>

AddShortObject ==
    /\ pc = "idle"
    /\ ListPushBack("ADD_OBJECT", "dependencies", "object", OBJECT_CAPACITY,
                    ShortName, TRUE)
    /\ UNCHANGED <<debug, printed, cc, ruleVars, target, pc, buildVars, cleanVars>>

AddCcFlag ==
    /\ pc = "idle"
    /\ cc # NULL
    /\ ListPushBack("ADD_FLAG", "cc->flags", "flag", FLAG_CAPACITY, ShortName, TRUE)
    /\ UNCHANGED <<debug, printed, cc, ruleVars, target, pc, buildVars, cleanVars>>

NextCaller ==
    \/ INIT_CC
    \/ SET_CC
    \/ AddShortFlag
    \/ AddCcFlag
    \/ AddShortObject
    \/ INIT_RULE
    \/ MAKE_RULE
    \/ RenameTarget
    \/ EndTargetLifetime
    \/ BUILD
    \/ Fork
    \/ ChildExec
    \/ ChildExit
    \/ ChildKilled
    \/ Wait
    \/ cleanup
    \/ CleanupDeps
    \/ CleanupFlags
    \/ CleanupCc
    \/ CleanupRule

SpecCaller == Init /\ [][NextCaller]_vars

\* ------------------------------------------------ the diagnostic build
\* The program compiled with DEBUG defined, with a caller that appends short
\* names only.
InitDebug == Start(TRUE)

NextDebug ==
    \/ INIT_CC
    \/ SET_CC
    \/ AddShortFlag
    \/ AddShortObject
    \/ INIT_RULE
    \/ MAKE_RULE
    \/ BUILD
    \/ Fork
    \/ ChildExec
    \/ ChildExit
    \/ ChildKilled
    \/ Wait
    \/ cleanup
    \/ CleanupDeps
    \/ CleanupFlags
    \/ CleanupCc
    \/ CleanupRule

SpecDebug == InitDebug /\ [][NextDebug]_vars

\* -------------------------------------------- the character-array fields
\* The same program with command and output strings of every length around
\* the capacity of their fields, and short dependencies to assemble with.
MaxOver == 1
StrLens == {0, 1} \cup ((CC_CAPACITY - 2)..(CC_CAPACITY + MaxOver))
StrInputs == {Str(c, n) : c \in {100, 101}, n \in StrLens}

StrSetCc ==
    /\ pc = "idle"
    /\ cc # NULL
    /\ \E s \in StrInputs : SetCc(s)
    /\ UNCHANGED <<debug, printed, listVars, frees, cc, ruleVars, target, pc, buildVars, cleanVars>>

StrMakeRule ==
    /\ pc = "idle"
    /\ \E out \in StrInputs :
           MakeRule(rule, cc, flag_list, TargetAddr, dependencies, out)
    /\ UNCHANGED <<debug, printed, listVars, frees, cc, rule, target, pc, buildVars, cleanVars>>

NextStr ==
    \/ INIT_CC
    \/ INIT_RULE
    \/ AddShortObject
    \/ StrSetCc
    \/ StrMakeRule

SpecStr == Init /\ [][NextStr]_vars

\* ---------------------------------------------------------------- claims
FlagCount == Len(Traverse(nodes, ccObj.flags))
DepCount  == Len(Traverse(nodes, ruleObj.dependencies))

\* CC, F1..Fn, "-o", O, T, D1..Dm for the rule as it stands.
ExpectedArgs ==
    <<CStr(ccObj.cmd)>> \o NamesOf(nodes, ccObj.flags)
        \o <<<<45, 111>>, CStr(ruleObj.output), target.name>>
        \o NamesOf(nodes, ruleObj.dependencies)

\* C1: while BUILD holds an argument vector for a rule with n flags and m >= 1
\* dependencies, the vector has exactly n+m+5 slots, no store went outside
\* it, its first n+m+4 slots lead to CC, F1..Fn, "-o", O, T, D1..Dm in that
\* order, the last slot is the NULL end marker, and the child, once created,
\* is handed exactly those n+m+4 arguments.
C1_ArgumentVector ==
    argvLive =>
        /\ DepCount >= 1
        /\ Len(argv) = FlagCount + DepCount + 5
        /\ ~build.oob
        /\ \A k \in 1..(FlagCount + DepCount + 4) : argv[k] # NullSlot
        /\ argv[FlagCount + DepCount + 5] = NullSlot
        /\ \A k \in 1..(FlagCount + DepCount + 4) : Deref(argv[k]) = ExpectedArgs[k]
        /\ Len(ExpectedArgs) = FlagCount + DepCount + 4
        /\ child.st # "none" => child.args = ExpectedArgs

C1_Witness ==
    /\ child.st = "forked"
    /\ FlagCount = 1
    /\ DepCount = 2
    /\ Len(child.args) = 7

\* C2: a BUILD call returns 0 exactly when it created a child and that child
\* terminated normally with exit code 0.
C2_ExitStatusMapping ==
    op.name = "BUILD" =>
        (op.ret = 0 <=> /\ op.arg.children = 1
                        /\ op.arg.st = "terminated"
                        /\ op.arg.status.exited
                        /\ op.arg.status.code = 0)

\* C3: a BUILD call creates at most one child, and when it returns after
\* creating one, that child has terminated.
C3_OneChildAwaited ==
    /\ build.children <= 1
    /\ op.name = "BUILD" =>
           /\ op.arg.children <= 1
           /\ op.arg.children = 1 => op.arg.st = "terminated"
           /\ op.arg.children = 0 => op.arg.st = "none"

C3_Witness ==
    /\ op.name = "BUILD"
    /\ op.arg.children = 1
    /\ op.arg.st = "terminated"
    /\ op.ret = -1

AppendOps == {"ADD_FLAG", "ADD_OBJECT"}

\* The names, from the head on, of each of the caller's lists are the names
\* appended to it since it was empty, in the order of the appends.
ListOrder ==
    \A h \in {flag_list, dependencies} : h # NULL => NamesOf(nodes, h) = hist[h]

\* A successful append: the list it was called on is the old list followed
\* by one new node, the names and kinds of the nodes that existed are
\* untouched, the only link written is the old tail's, from NULL to the new
\* node, and nothing is freed.
AppendAtTail ==
    (op'.name \in AppendOps /\ op'.ok) =>
        LET old == Traverse(nodes, HeadOf(op'.arg))
            new == Traverse(nodes', IF op'.arg = "flag_list" THEN flag_list'
                                    ELSE dependencies')
        IN  /\ nalloc' = nalloc + 1
            /\ new = Append(old, nalloc')
            /\ nodes'[nalloc'].next = NULL
            /\ \A a \in 1..nalloc :
                   /\ nodes'[a].name = nodes[a].name
                   /\ nodes'[a].kind = nodes[a].kind
                   /\ nodes'[a].next # nodes[a].next =>
                          /\ old # <<>>
                          /\ a = old[Len(old)]
                          /\ nodes[a].next = NULL
                          /\ nodes'[a].next = nalloc'
            /\ op'.arg = "flag_list" => dependencies' = dependencies
            /\ op'.arg = "dependencies" => flag_list' = flag_list
            /\ frees' = frees

\* C4 (amended): from an empty list on, traversal from the head yields the
\* appended names in the order of the appends, and each successful append
\* adds one node at the tail and leaves the names of all existing nodes and
\* the links of all existing nodes but the old tail unmodified; the old
\* tail's link goes from NULL to the new node.
C4_AppendOrder == [][ListOrder' /\ AppendAtTail]_vars

\* A successful append leaves every existing node, name and link, as it was.
AppendKeepsNodes ==
    (op'.name \in AppendOps /\ op'.ok) =>
        /\ Traverse(nodes', IF op'.arg = "flag_list" THEN flag_list'
                            ELSE dependencies')
               = Append(Traverse(nodes, HeadOf(op'.arg)), nalloc')
        /\ \A a \in 1..nalloc : nodes'[a] = nodes[a]

\* C4 (as stated): traversal yields the appended names in order, and each
\* successful append adds one node at the tail and leaves the names and
\* links of all existing nodes unmodified.
C4_AsStated == [][ListOrder' /\ AppendKeepsNodes]_vars

C4_Witness ==
    /\ op.name = "ADD_OBJECT"
    /\ op.ok
    /\ dependencies # NULL
    /\ hist[dependencies] = <<LongestName, ShortName, LongestName>>
    /\ NamesOf(nodes, dependencies) = <<LongestName, ShortName, LongestName>>

\* C5: a failed append leaves every node, both list heads and so the length,
\* order and contents of every list as they were; storage it obtained for
\* the new node has been freed once and is linked nowhere.
C5_FailedAppendFrame ==
    [][(op'.name \in AppendOps /\ ~op'.ok) =>
           /\ nodes' = nodes
           /\ flag_list' = flag_list
           /\ dependencies' = dependencies
           /\ hist' = hist
           /\ \/ nalloc' = nalloc /\ frees' = frees
              \/ /\ nalloc' = nalloc + 1
                 /\ frees' = [frees EXCEPT ![nalloc'] = 1]]_vars

C5_Witness ==
    /\ op.name = "ADD_FLAG"
    /\ ~op.ok
    /\ Len(Traverse(nodes, flag_list)) = 2
    /\ nalloc = 3
    /\ nodes[nalloc].kind = "none"
    /\ frees[nalloc] = 1

\* C6: what the caller receives from a failed append differs from what it
\* receives from a successful append of the same function.
C6_FailureSignalled ==
    (op.name \in AppendOps /\ ~op.ok) => op.ret # Did(op.name, TRUE, op.arg).ret

\* The rule passed to BUILD is absent, or lacks compiler, target or
\* dependency list.
Malformed(r) ==
    \/ r = NULL
    \/ ruleObj.cc = NULL
    \/ ruleObj.target = NULL
    \/ ruleObj.dependencies = NULL

\* C7: a BUILD call on an absent rule, or on a rule whose compiler, target or
\* dependency list is absent, returns non-zero, creates no child and
\* allocates no argument vector; and no BUILD call is past its check with
\* such a rule.
C7_MalformedRuleRefused ==
    /\ (pc \in {"fork", "wait"} \/ argvLive \/ child.st # "none")
           => ~Malformed(build.rule)
    /\ (op.name = "BUILD" /\ Malformed(op.arg.rule)) =>
           /\ op.ret # 0
           /\ op.arg.children = 0
           /\ op.arg.allocs = 0
           /\ ~argvLive
           /\ child.st = "none"

C7_Witness ==
    /\ op.name = "BUILD"
    /\ op.arg.rule # NULL
    /\ ruleObj.cc # NULL
    /\ ruleObj.dependencies # NULL
    /\ ruleObj.target = NULL
    /\ op.ret = -1

\* C8: a MAKE_RULE call whose rule, compiler or dependency list is absent
\* changes neither the rule (compiler reference, target, dependency list,
\* output) nor the compiler descriptor (flag list, command).
C8_RefusedAssemblyNoOp ==
    [][(/\ op'.name = "MAKE_RULE"
        /\ \/ op'.arg.rule = NULL
           \/ op'.arg.compiler = NULL
           \/ op'.arg.dependencies = NULL)
       => (ruleObj' = ruleObj /\ ccObj' = ccObj)]_vars

C8_Witness ==
    /\ op.name = "MAKE_RULE"
    /\ ~op.ok
    /\ op.arg.rule # NULL
    /\ op.arg.compiler # NULL
    /\ op.arg.dependencies = NULL
    /\ ruleObj.cc # NULL
    /\ ccObj.flags # NULL

\* C9: a MAKE_RULE call with rule, compiler and dependency list present but
\* the target absent leaves the rule's compiler reference, dependency list
\* and output and the compiler's flag list as they were.
C9_AbsentTargetRejected ==
    [][(/\ op'.name = "MAKE_RULE"
        /\ op'.arg.rule # NULL
        /\ op'.arg.compiler # NULL
        /\ op'.arg.dependencies # NULL
        /\ op'.arg.target = NULL)
       => /\ ruleObj'.cc = ruleObj.cc
          /\ ruleObj'.dependencies = ruleObj.dependencies
          /\ ruleObj'.output = ruleObj.output
          /\ ccObj'.flags = ccObj.flags]_vars

\* What the rule owns: its dependency nodes, its compiler's flag nodes, the
\* compiler descriptor and its own storage.
NodesOf(ptr) == {Traverse(nodes, ptr)[i] : i \in 1..Len(Traverse(nodes, ptr))}
Owned ==
    NodesOf(ruleObj.dependencies) \cup NodesOf(ccObj.flags)
        \cup {CcAddr, RuleAddr}

\* C10: releasing a rule that has a compiler never reads storage it has
\* freed, frees nothing twice, never frees the target, frees the rule's own
\* storage only when everything else the rule owns is freed, and ends with
\* everything the rule owns freed once and nothing else freed by it.
C10_Release ==
    /\ ~uaf
    /\ \A a \in 1..TargetAddr : frees[a] <= 1
    /\ frees[TargetAddr] = 0
    /\ frees[RuleAddr] = 1 => \A a \in Owned : frees[a] = 1
    /\ pc = "done" =>
           /\ \A a \in Owned : frees[a] = 1
           /\ \A a \in NodeAddr \ Owned :
                  frees[a] = IF a <= nalloc /\ nodes[a].kind = "none" THEN 1 ELSE 0

C10_Witness ==
    /\ pc = "done"
    /\ ruleObj.target # NULL
    /\ Len(Traverse(nodes, ruleObj.dependencies)) = 2
    /\ Len(Traverse(nodes, ccObj.flags)) = 1
    /\ \A a \in Owned : frees[a] = 1

\* C11: once MAKE_RULE has refused a rule for want of a compiler or of
\* dependencies, the rule stays incomplete, no BUILD on it gets past its
\* first check, and no cleanup of it reads through an absent field of it.
C11_RefusedRuleHarmless ==
    refused =>
        /\ Malformed(rule)
        /\ pc \notin {"fork", "wait"}
        /\ ~(op.name = "cleanup" /\ ~op.ok)

\* C12: a child whose exec failed has terminated, by an exit with a non-zero
\* code, without a step of the parent's path (it is never the one that
\* waits, frees the vector or returns from BUILD); and the BUILD call that
\* created it returns failure.
C12_ExecFailureIsFailure ==
    /\ child.exec = "failed" =>
            /\ child.st = "terminated"
            /\ WIFEXITED(child.status)
            /\ WEXITSTATUS(child.status) # 0
    /\ (op.name = "BUILD" /\ op.arg.exec = "failed") => op.ret # 0

\* The field holds the first min(strlen(src), capacity - 1) characters of
\* src and then a terminator.
TruncatedCopy(field, src, capacity) ==
    LET k == IF Len(src) < capacity - 1 THEN Len(src) ELSE capacity - 1
    IN  /\ Len(field) = capacity
        /\ SubSeq(field, 1, k) = SubSeq(src, 1, k)
        /\ field[k + 1] = NUL

\* C13: after SET_CC with a string of any length the command field holds
\* the first min(length, capacity - 1) characters and then a terminator, and
\* so does the output field after a MAKE_RULE that copied an output path.
C13_TruncatedAndTerminated ==
    /\ op.name = "SET_CC" => TruncatedCopy(ccObj.cmd, op.arg, CC_CAPACITY)
    /\ (op.name = "MAKE_RULE" /\ op.ok) =>
            TruncatedCopy(ruleObj.output, op.arg.output, OUT_CAPACITY)

\* The slot of the target's name among the child's arguments.
TargetSlot == FlagCount + 4

\* C14 as stated: the rule holds its target by value, so the target name a
\* BUILD hands the child is the name the target had when MAKE_RULE stored
\* it, whatever the caller did to the target afterwards.
C14_TargetByValue ==
    child.st # "none" => child.args[TargetSlot] = held

\* C14: the rule holds its target by reference: after a successful
\* MAKE_RULE rule->target is the address of the caller's object, and while
\* that object's lifetime lasts the target name a BUILD hands the child is
\* the name the object holds at that BUILD.
C14_TargetByReference ==
    /\ (op.name = "MAKE_RULE" /\ op.ok) => ruleObj.target = op.arg.target
    /\ (child.st # "none" /\ target.live) =>
            /\ ruleObj.target = TargetAddr
            /\ child.args[TargetSlot] = target.name

C14_Witness ==
    /\ child.st = "forked"
    /\ target.live
    /\ held = MainC
    /\ target.name # MainC
    /\ child.args[TargetSlot] = target.name

C16_DiagnosticDoesNotInfluence ==
    /\ [][(debug /\ pc = "idle" /\ op'.name \in {"serialize", "BUILD"}) =>
              /\ \E r \in {NULL, rule} : BuildInner(r)
              /\ UNCHANGED <<nodes, frees, flag_list, dependencies, ccObj,
                             ruleObj, target>>]_vars
    /\ []((debug /\ argvLive) =>
              /\ ExecArgs(argv, 1) = ExpectedArgs
              /\ Len(argv) = FlagCount + DepCount + 5)

C16_Witness ==
    /\ debug
    /\ pc = "fork"
    /\ printed # <<>>
    /\ FlagCount = 1
    /\ DepCount = 2
    /\ ExecArgs(argv, 1) = ExpectedArgs

\* The words of a line: its maximal runs of characters other than spaces.
RECURSIVE Words(_, _, _)
Words(line, i, w) ==
    IF i > Len(line) THEN (IF w = <<>> THEN <<>> ELSE <<w>>)
    ELSE IF line[i] = 32
    THEN (IF w = <<>> THEN <<>> ELSE <<w>>) \o Words(line, i + 1, <<>>)
    ELSE Words(line, i + 1, Append(w, line[i]))

\* An argument that is a word: not empty, without a space.
IsWord(arg) == arg # <<>> /\ \A i \in 1..Len(arg) : arg[i] # 32

\* C17: in a program compiled with DEBUG, when every argument of the vector
\* is a non-empty string without a space and the command line fits the
\* buffer, the line BUILD has printed when it reaches the fork, split at its
\* spaces, is the sequence of those arguments, one word each, in order.
C17_RenderedIsCommandLine ==
    (/\ debug
     /\ pc = "fork"
     /\ \A k \in 1..Len(ExecArgs(argv, 1)) : IsWord(ExecArgs(argv, 1)[k])
     /\ Len(printed) < CommandSize - 1)
        => Words(printed, 1, <<>>) = ExecArgs(argv, 1)

\* C18: a BUILD call allocates at most one argument vector; when it returns
\* after having allocated one (fork failed, or the child was awaited) it has
\* freed it exactly once; the vector is read (by the fork, for the child)
\* only while allocated and not freed; and between BUILD calls there is no
\* vector.
C18_VectorLifetime ==
    /\ build.allocs <= 1
    /\ argvLive <=> (build.allocs = 1 /\ build.frees = 0)
    /\ pc \in {"fork", "wait"} => argvLive
    /\ pc \notin {"fork", "wait"} => (~argvLive /\ argv = <<>>)
    /\ op.name = "BUILD" =>
           /\ op.arg.allocs <= 1
           /\ op.arg.frees = op.arg.allocs
           /\ op.arg.allocs = 1 <=> op.arg.why \in {"fork", "waited", "ECHILD"}

C18_Witness ==
    /\ op.name = "BUILD"
    /\ op.arg.why = "fork"
    /\ op.arg.allocs = 1
    /\ op.arg.frees = 1
    /\ ~argvLive

====
